---- MODULE Spec2Model ----
(***************************************************************************)
(* Model of pkg/configs/configs.go: the rule format version and its text   *)
(* codec, the RulesConfig equality, the two-format rule parser, the        *)
(* flattened Config decoding and the projection of a View to its rules.    *)
(*                                                                         *)
(* Every operation of the package is a function of its inputs, so each     *)
(* specification draws the inputs in Init and applies the operations in    *)
(* its actions.  A Go map is iterated in an unspecified order; the order   *)
(* is an explicit input (a sequence enumerating the keys).                 *)
(***************************************************************************)
EXTENDS Integers, Sequences, FiniteSets, TLC

VARIABLES
    ePc, ec, eo, eOrder, eRet,              \* RulesConfig.Equal
    pPc, rc, order, ret, ret1,              \* RulesConfig.Parse
    cPc, fv, fvOld, data, cErr, out,        \* RuleFormatVersion codec
    vPc, rec, cfg, cfgOld, cfgErr, view, vrc \* Config decoding, View projection

eVars == <<ePc, ec, eo, eOrder, eRet>>
pVars == <<pPc, rc, order, ret, ret1>>
cVars == <<cPc, fv, fvOld, data, cErr, out>>
vVars == <<vPc, rec, cfg, cfgOld, cfgErr, view, vrc>>
vars == <<eVars, pVars, cVars, vVars>>

----------------------------------------------------------------------------
(* Bounds *)

\* largest number of files in a generated RulesConfig
MaxFiles == 2
\* the generated format versions are -1..MaxVersion (2 and above are unknown)
MaxVersion == 2
\* the generated configuration IDs are 0..MaxID
MaxID == 1
\* the generated deletion timestamps are 0..MaxTime (0 is the zero time)
MaxTime == 1

----------------------------------------------------------------------------
(* Go values *)

\* const ( RuleFormatV1 = iota; RuleFormatV2 = iota )
RuleFormatV1 == 0
RuleFormatV2 == 1

\* a RuleFormatVersion is an int: the known values and some unknown ones
Versions == -1..MaxVersion

\* error values: nil, or the format string of fmt.Errorf with its arguments
\* rendered as text
NilErr == [format |-> "<nil>", args |-> <<>>]
Errorf(format, args) == [format |-> format, args |-> args]

\* a map[string]T: nil, or a (possibly empty) table
NilMap == [isNil |-> TRUE, kv |-> <<>>]
MakeMap(f) == [isNil |-> FALSE, kv |-> f]
MapLen(m) == Cardinality(DOMAIN m.kv)
MapPut(f, k, v) == [x \in (DOMAIN f) \cup {k} |-> IF x = k THEN v ELSE f[x]]

Range(s) == {s[i] : i \in DOMAIN s}

\* the orders in which a range loop may visit the key set S
Orders(S) ==
    {s \in [1..Cardinality(S) -> S] : \A i, j \in 1..Cardinality(S) : s[i] = s[j] => i = j}

\* the tables with at most MaxFiles keys among names and values among contents
Tables(names, contents) ==
    UNION {[S -> contents] : S \in {T \in SUBSET names : Cardinality(T) <= MaxFiles}}

GoMaps(names, contents) ==
    {NilMap} \cup {MakeMap(f) : f \in Tables(names, contents)}

\* type RulesConfig struct { FormatVersion; Files }
RulesConfigs(names, contents) ==
    [FormatVersion : Versions, Files : GoMaps(names, contents)]

FileNames == {"c", "b;c", "d"}

----------------------------------------------------------------------------
(* RulesConfig.Equal *)

RECURSIVE EqualLoop(_, _, _)
EqualLoop(c, o, ks) ==
    IF ks = <<>> THEN TRUE
    ELSE LET k == Head(ks)
             v1 == c.Files.kv[k]
             ok == k \in DOMAIN o.Files.kv
         IN  IF ~ok \/ v1 # o.Files.kv[k] THEN FALSE
             ELSE EqualLoop(c, o, Tail(ks))

\* a variant without the comparison of the lengths
EqualNoLen(c, o, ks) ==
    IF c.FormatVersion # o.FormatVersion THEN FALSE
    ELSE EqualLoop(c, o, ks)

Equal(c, o, ks) ==
    IF c.FormatVersion # o.FormatVersion THEN FALSE
    ELSE IF MapLen(o.Files) # MapLen(c.Files) THEN FALSE
    ELSE EqualLoop(c, o, ks)

\* file contents are opaque to Equal
EqContents == {"r = up", "ALERT A IF up"}
EqConfigs == RulesConfigs(FileNames, EqContents)

ZeroRulesConfig == [FormatVersion |-> 0, Files |-> NilMap]

\* the variables of Equal before any call
IdleE ==
    /\ ePc = "idle"
    /\ ec = ZeroRulesConfig
    /\ eo = ZeroRulesConfig
    /\ eOrder = <<>>
    /\ eRet = FALSE

InitE ==
    /\ ePc = "ready"
    /\ ec \in EqConfigs
    /\ eo \in EqConfigs
    /\ eOrder \in Orders(DOMAIN ec.Files.kv)
    /\ eRet = FALSE

\* c.Equal(o), the range loop visiting the keys of c.Files in eOrder
CallEqual ==
    /\ ePc = "ready"
    /\ eRet' = Equal(ec, eo, eOrder)
    /\ ePc' = "done"
    /\ UNCHANGED <<ec, eo, eOrder>>

----------------------------------------------------------------------------
(* The parsers and rule constructors RulesConfig.Parse calls *)

\* rule files in the Prometheus 2.x format
YamlA == "groups: [{name: a, rules: [{record: r, expr: up}]}]"
YamlAB == "groups: [{name: 'a;b', rules: [{alert: HighLoad, expr: 'load > 1', for: 5m, labels: {severity: page, job: x}, annotations: {summary: high}}, {record: r2, expr: 'rate(x[5m])'}]}, {name: g, rules: []}]"
YamlBadExpr == "groups: [{name: a, rules: [{record: r, expr: up}, {record: q, expr: 'up +'}]}]"
YamlUnterminated == "groups: [{name: a, rules: [{record: r, expr: up}"
YamlTwoErrors == "groups: [{name: a, rules: [{expr: up}, {record: r}]}]"
\* rule files in the Prometheus 1.x format
LegacyGood == "ALERT HighLoad IF load > 1 FOR 5m LABELS {severity=\"page\"} ANNOTATIONS {summary=\"high\"}\nr = up"
LegacyKeepCommon == "r = up\nq = sum(x) by (job) keep_common"

Contents ==
    {YamlA, YamlAB, YamlBadExpr, YamlUnterminated, YamlTwoErrors, LegacyGood, LegacyKeepCommon}

\* the label names in the order labels.FromMap sorts them
LabelOrder == <<"job", "severity", "summary">>

\* labels.FromMap: the pairs of the map, sorted by name
FromMap(m) ==
    LET names == SelectSeq(LabelOrder, LAMBDA n : n \in DOMAIN m)
    IN  [i \in DOMAIN names |-> <<names[i], m[names[i]]>>]

NoLabels == <<>>

\* promql.ParseExpr: the expression, or a syntax error
promqlParseExpr(text) ==
    IF text \in {"up", "load > 1", "rate(x[5m])"}
    THEN [expr |-> "promql(" \o text \o ")", err |-> NilErr]
    ELSE [expr |-> "", err |-> Errorf("parse error at char %d: %s", <<text>>)]

V2Rule(alert, record, expr, for, lbls, anns) ==
    [Alert |-> alert, Record |-> record, Expr |-> expr, For |-> for,
     Labels |-> lbls, Annotations |-> anns]

\* rulefmt.Parse: the groups of a file, or the errors found
rulefmtParse(content) ==
    CASE content = YamlA ->
           [Groups |-> << [Name |-> "a",
                           Rules |-> << V2Rule("", "r", "up", "0s", NoLabels, NoLabels) >>] >>,
            errs |-> <<>>]
      [] content = YamlAB ->
           [Groups |-> << [Name |-> "a;b",
                           Rules |-> << V2Rule("HighLoad", "", "load > 1", "5m",
                                               [severity |-> "page", job |-> "x"],
                                               [summary |-> "high"]),
                                        V2Rule("", "r2", "rate(x[5m])", "0s", NoLabels, NoLabels) >>],
                          [Name |-> "g", Rules |-> <<>>] >>,
            errs |-> <<>>]
      [] content = YamlBadExpr ->
           [Groups |-> << [Name |-> "a",
                           Rules |-> << V2Rule("", "r", "up", "0s", NoLabels, NoLabels),
                                        V2Rule("", "q", "up +", "0s", NoLabels, NoLabels) >>] >>,
            errs |-> <<>>]
      [] content = YamlUnterminated ->
           [Groups |-> <<>>, errs |-> << "yaml: did not find expected ',' or ']'" >>]
      [] content = YamlTwoErrors ->
           [Groups |-> <<>>,
            errs |-> << "group a, rule 0: one of 'record' or 'alert' must be set",
                        "group a, rule 1: field 'expr' must be set" >>]
      [] OTHER ->
           [Groups |-> <<>>, errs |-> << "yaml: unmarshal errors" >>]

V1Stmt(kind, name, expr, duration, lbls, anns) ==
    [kind |-> kind, Name |-> name, Expr |-> expr, Duration |-> duration,
     Labels |-> lbls, Annotations |-> anns]

\* legacy_promql.ParseStmts: the statements of a file, or a syntax error
legacyParseStmts(content) ==
    CASE content = LegacyGood ->
           [stmts |-> << V1Stmt("AlertStmt", "HighLoad", "legacy(load > 1)", "5m",
                                << <<"severity", "page">> >>, << <<"summary", "high">> >>),
                         V1Stmt("RecordStmt", "r", "legacy(up)", "0s", NoLabels, NoLabels) >>,
            err |-> ""]
      [] content = LegacyKeepCommon ->
           [stmts |-> << V1Stmt("RecordStmt", "r", "legacy(up)", "0s", NoLabels, NoLabels),
                         V1Stmt("RecordStmt", "q", "legacy(sum(x) by (job) keep_common)", "0s",
                                NoLabels, NoLabels) >>,
            err |-> ""]
      [] OTHER ->
           [stmts |-> <<>>, err |-> "parse error at line 1, char 7: unexpected character"]

\* Expr.String() of a legacy expression: its canonical text
legacyExprString(e) ==
    CASE e = "legacy(load > 1)" -> "load > 1"
      [] e = "legacy(up)" -> "up"
      [] e = "legacy(sum(x) by (job) keep_common)" -> "sum(x) BY (job) KEEP_COMMON"
      [] OTHER -> ""

\* rules.NewAlertingRule(name, vec, hold, lbls, anns, restored, logger)
NewAlertingRule(name, vec, hold, lbls, anns, restored) ==
    [rule |-> "AlertingRule", name |-> name, vector |-> vec, holdDuration |-> hold,
     labels |-> lbls, annotations |-> anns, restored |-> restored]

\* rules.NewRecordingRule(name, vector, lset)
NewRecordingRule(name, vec, lset) ==
    [rule |-> "RecordingRule", name |-> name, vector |-> vec, holdDuration |-> "0s",
     labels |-> lset, annotations |-> NoLabels, restored |-> FALSE]

----------------------------------------------------------------------------
(* RulesConfig.Parse *)

\* IsValid
IsValid(v) ==
    CASE v = RuleFormatV1 -> TRUE
      [] v = RuleFormatV2 -> TRUE
      [] OTHER -> FALSE

\* What a parse returns: the rule mapping and the error, and for the record
\* the adapter that ran and the files it handed to the file parser, in order.
Outcome(rules, err, adapter, visited) ==
    [rules |-> rules, err |-> err, adapter |-> adapter, visited |-> visited]

\* parseV2: the loop over rg.Rules
RECURSIVE v2Rules(_, _)
v2Rules(rs, rls) ==
    IF rs = <<>> THEN [rls |-> rls, err |-> NilErr]
    ELSE LET rl == Head(rs)
             p == promqlParseExpr(rl.Expr)
         IN  IF p.err # NilErr THEN [rls |-> <<>>, err |-> p.err]
             ELSE IF rl.Alert # ""
             THEN v2Rules(Tail(rs),
                          Append(rls, NewAlertingRule(rl.Alert, p.expr, rl.For,
                                                      FromMap(rl.Labels),
                                                      FromMap(rl.Annotations), TRUE)))
             ELSE v2Rules(Tail(rs),
                          Append(rls, NewRecordingRule(rl.Record, p.expr,
                                                       FromMap(rl.Labels))))

\* the key of a group in the result of parseV2
GroupKey(name, fn) == name \o ";" \o fn

\* parseV2: the loop over rgs.Groups
RECURSIVE v2Groups(_, _, _)
v2Groups(rgs, fn, groups) ==
    IF rgs = <<>> THEN [groups |-> groups, err |-> NilErr]
    ELSE LET rg == Head(rgs)
             r == v2Rules(rg.Rules, <<>>)
         IN  IF r.err # NilErr THEN [groups |-> groups, err |-> r.err]
             ELSE v2Groups(Tail(rgs), fn, MapPut(groups, GroupKey(rg.Name, fn), r.rls))

\* a variant that leaves out a file with errors and goes on with the others
RECURSIVE v2FilesSkip(_, _, _, _)
v2FilesSkip(files, ks, groups, seen) ==
    IF ks = <<>> THEN Outcome(MakeMap(groups), NilErr, "parseV2", seen)
    ELSE LET fn == Head(ks)
             p == rulefmtParse(files[fn])
         IN  IF Len(p.errs) > 0
             THEN v2FilesSkip(files, Tail(ks), groups, Append(seen, fn))
             ELSE LET g == v2Groups(p.Groups, fn, groups)
                  IN  IF g.err # NilErr
                      THEN Outcome(NilMap, g.err, "parseV2", Append(seen, fn))
                      ELSE v2FilesSkip(files, Tail(ks), g.groups, Append(seen, fn))

\* parseV2: the loop over c.Files, visiting the keys in the order ks
RECURSIVE v2Files(_, _, _, _)
v2Files(files, ks, groups, seen) ==
    IF ks = <<>> THEN Outcome(MakeMap(groups), NilErr, "parseV2", seen)
    ELSE LET fn == Head(ks)
             p == rulefmtParse(files[fn])
         IN  IF Len(p.errs) > 0
             THEN Outcome(NilMap, Errorf("error parsing %s: %v", <<fn, p.errs[1]>>),
                          "parseV2", Append(seen, fn))
             ELSE LET g == v2Groups(p.Groups, fn, groups)
                  IN  IF g.err # NilErr
                      THEN Outcome(NilMap, g.err, "parseV2", Append(seen, fn))
                      ELSE v2Files(files, Tail(ks), g.groups, Append(seen, fn))

parseV2(c, ks) == v2Files(c.Files.kv, ks, <<>>, <<>>)

\* parseV1: the loop over stmts
RECURSIVE v1Stmts(_, _)
v1Stmts(stmts, ra) ==
    IF stmts = <<>> THEN [ra |-> ra, err |-> NilErr]
    ELSE LET r == Head(stmts)
             p == promqlParseExpr(legacyExprString(r.Expr))
         IN  CASE r.kind = "AlertStmt" ->
                    IF p.err # NilErr THEN [ra |-> <<>>, err |-> p.err]
                    ELSE v1Stmts(Tail(stmts),
                                 Append(ra, NewAlertingRule(r.Name, p.expr, r.Duration,
                                                            r.Labels, r.Annotations, TRUE)))
               [] r.kind = "RecordStmt" ->
                    IF p.err # NilErr THEN [ra |-> <<>>, err |-> p.err]
                    ELSE v1Stmts(Tail(stmts),
                                 Append(ra, NewRecordingRule(r.Name, p.expr, r.Labels)))
               [] OTHER ->
                    [ra |-> <<>>, err |-> Errorf("ruler.GetRules: unknown statement type", <<>>)]

\* a variant that returns the error of the statement parser as it is
RECURSIVE v1FilesUnwrapped(_, _, _, _)
v1FilesUnwrapped(files, ks, result, seen) ==
    IF ks = <<>> THEN Outcome(MakeMap(result), NilErr, "parseV1", seen)
    ELSE LET fn == Head(ks)
             p == legacyParseStmts(files[fn])
         IN  IF p.err # ""
             THEN Outcome(NilMap, Errorf(p.err, <<>>), "parseV1", Append(seen, fn))
             ELSE LET s == v1Stmts(p.stmts, <<>>)
                  IN  IF s.err # NilErr
                      THEN Outcome(NilMap, s.err, "parseV1", Append(seen, fn))
                      ELSE v1FilesUnwrapped(files, Tail(ks), MapPut(result, fn, s.ra),
                                            Append(seen, fn))

\* parseV1: the loop over c.Files, visiting the keys in the order ks
RECURSIVE v1Files(_, _, _, _)
v1Files(files, ks, result, seen) ==
    IF ks = <<>> THEN Outcome(MakeMap(result), NilErr, "parseV1", seen)
    ELSE LET fn == Head(ks)
             p == legacyParseStmts(files[fn])
         IN  IF p.err # ""
             THEN Outcome(NilMap, Errorf("error parsing %s: %s", <<fn, p.err>>),
                          "parseV1", Append(seen, fn))
             ELSE LET s == v1Stmts(p.stmts, <<>>)
                  IN  IF s.err # NilErr
                      THEN Outcome(NilMap, s.err, "parseV1", Append(seen, fn))
                      ELSE v1Files(files, Tail(ks), MapPut(result, fn, s.ra), Append(seen, fn))

parseV1(c, ks) == v1Files(c.Files.kv, ks, <<>>, <<>>)

\* a variant that takes every version but V2 for the first format
ParseDefaultV1(c, ks) ==
    IF c.FormatVersion = RuleFormatV2 THEN parseV2(c, ks) ELSE parseV1(c, ks)

Parse(c, ks) ==
    CASE c.FormatVersion = RuleFormatV1 -> parseV1(c, ks)
      [] c.FormatVersion = RuleFormatV2 -> parseV2(c, ks)
      [] OTHER -> Outcome(NilMap,
                          Errorf("unknown rule format version %v", <<ToString(c.FormatVersion)>>),
                          "none", <<>>)

ParseConfigs == RulesConfigs(FileNames, Contents)

NoOutcome == Outcome(NilMap, NilErr, "none", <<>>)

\* the variables of Parse before any call
IdleP ==
    /\ pPc = "idle"
    /\ rc = ZeroRulesConfig
    /\ order = <<>>
    /\ ret = NoOutcome
    /\ ret1 = NoOutcome

InitP ==
    /\ pPc = "ready"
    /\ rc \in ParseConfigs
    /\ order \in Orders(DOMAIN rc.Files.kv)
    /\ ret = NoOutcome
    /\ ret1 = NoOutcome

\* c.Parse(), the range loops visiting the keys of c.Files in order
CallParse ==
    /\ pPc = "ready"
    /\ ret' = Parse(rc, order)
    /\ pPc' = "parsed"
    /\ UNCHANGED <<rc, order, ret1>>

\* a second c.Parse() on the same configuration; the map may be visited in
\* another order
CallParseAgain ==
    /\ pPc = "parsed"
    /\ \E ks \in Orders(DOMAIN rc.Files.kv) :
          /\ ret' = Parse(rc, ks)
          /\ order' = ks
    /\ ret1' = ret
    /\ pPc' = "parsed twice"
    /\ UNCHANGED rc

----------------------------------------------------------------------------
(* RuleFormatVersion.MarshalJSON and UnmarshalJSON *)

\* JSON values as encoding/json reads and writes them
JString(t) == [kind |-> "string", val |-> t, raw |-> "\"" \o t \o "\""]
JNumber(t) == [kind |-> "number", val |-> t, raw |-> t]
JNull == [kind |-> "null", val |-> "", raw |-> "null"]
JTrue == [kind |-> "bool", val |-> "true", raw |-> "true"]
\* no bytes: a field the record omits, the result of a failed Marshal
NoData == [kind |-> "none", val |-> "", raw |-> ""]

Tokens ==
    {JString("1"), JString("2"), JString(""), JString("0"), JString("3"),
     JString("01"), JString("v2"), JNumber("1"), JNumber("2"), JNull, JTrue}

\* json.Unmarshal(data, &s) for var s string
jsonUnmarshalString(d) ==
    CASE d.kind = "string" -> [s |-> d.val, err |-> NilErr]
      [] d.kind = "null" -> [s |-> "", err |-> NilErr]
      [] OTHER -> [s |-> "",
                   err |-> Errorf("json: cannot unmarshal %s into Go value of type string",
                                  <<d.kind>>)]

\* v.MarshalJSON(): the bytes and the error
MarshalJSON(v) ==
    CASE v = RuleFormatV1 -> [data |-> JString("1"), err |-> NilErr]
      [] v = RuleFormatV2 -> [data |-> JString("2"), err |-> NilErr]
      [] OTHER -> [data |-> NoData,
                   err |-> Errorf("unknown rule format version %d", <<ToString(v)>>)]

\* a variant that decodes every unknown token as the first version
UnmarshalJSONCoerce(v, d) ==
    LET u == jsonUnmarshalString(d)
    IN  IF u.err # NilErr THEN [v |-> v, err |-> u.err]
        ELSE CASE u.s = "2" -> [v |-> RuleFormatV2, err |-> NilErr]
               [] OTHER -> [v |-> RuleFormatV1, err |-> NilErr]

\* (&v).UnmarshalJSON(data): the value of v afterwards and the error
UnmarshalJSON(v, d) ==
    LET u == jsonUnmarshalString(d)
    IN  IF u.err # NilErr THEN [v |-> v, err |-> u.err]
        ELSE CASE u.s = "1" -> [v |-> RuleFormatV1, err |-> NilErr]
               [] u.s = "2" -> [v |-> RuleFormatV2, err |-> NilErr]
               [] OTHER -> [v |-> v,
                            err |-> Errorf("unknown rule format version %q", <<d.raw>>)]

\* the variables of the codec before any call
IdleC ==
    /\ cPc = "idle"
    /\ fv = RuleFormatV1
    /\ fvOld = RuleFormatV1
    /\ data = NoData
    /\ cErr = NilErr
    /\ out = NoData

InitC ==
    /\ cPc = "ready"
    /\ fv \in Versions
    /\ fvOld = fv
    /\ data \in Tokens
    /\ cErr = NilErr
    /\ out = NoData

\* fv.UnmarshalJSON(data)
CallUnmarshalJSON ==
    /\ cPc = "ready"
    /\ LET r == UnmarshalJSON(fv, data)
       IN  /\ fv' = r.v
           /\ cErr' = r.err
    /\ fvOld' = fv
    /\ cPc' = "decoded"
    /\ UNCHANGED <<data, out>>

\* fv.MarshalJSON() of a value however it was made
CallMarshalJSON ==
    /\ cPc = "ready"
    /\ LET r == MarshalJSON(fv)
       IN  /\ out' = r.data
           /\ cErr' = r.err
    /\ cPc' = "encoded"
    /\ UNCHANGED <<fv, fvOld, data>>

\* fv.MarshalJSON() of a value that was decoded
CallMarshalDecoded ==
    /\ cPc = "decoded"
    /\ cErr = NilErr
    /\ LET r == MarshalJSON(fv)
       IN  /\ out' = r.data
           /\ cErr' = r.err
    /\ cPc' = "reencoded"
    /\ UNCHANGED <<fv, fvOld, data>>

----------------------------------------------------------------------------
(* Config.UnmarshalJSON, View.GetVersionedRulesConfig *)

MakeConfig(v, files, am) ==
    [RulesConfig |-> [FormatVersion |-> v, Files |-> files], AlertmanagerConfig |-> am]

ZeroConfig == MakeConfig(0, NilMap, "")

\* the flattened records: each of the three fields may be missing
JAbsentFiles == [kind |-> "absent", obj |-> <<>>]
JNullFiles == [kind |-> "null", obj |-> <<>>]
JObject(f) == [kind |-> "object", obj |-> f]

Records ==
    [rules_files : {JAbsentFiles, JNullFiles} \cup {JObject(f) : f \in Tables(FileNames, EqContents)},
     rule_format_version : {NoData} \cup Tokens,
     alertmanager_config : {NoData, JString("route: {receiver: x}")}]

\* json.Unmarshal(data, &compat) for compat := configCompat{}
jsonUnmarshalCompat(r) ==
    LET files == IF r.rules_files.kind = "object" THEN MakeMap(r.rules_files.obj) ELSE NilMap
        ver == IF r.rule_format_version = NoData THEN [v |-> 0, err |-> NilErr]
               ELSE UnmarshalJSON(0, r.rule_format_version)
        am == IF r.alertmanager_config = NoData THEN "" ELSE r.alertmanager_config.val
    IN  [compat |-> [RulesFiles |-> files, RuleFormatVersion |-> ver.v, AlertmanagerConfig |-> am],
         err |-> ver.err]

\* a variant that goes on with what was decoded when the record is rejected
ConfigUnmarshalJSONLenient(c, r) ==
    LET u == jsonUnmarshalCompat(r)
    IN  [c |-> MakeConfig(u.compat.RuleFormatVersion, u.compat.RulesFiles,
                          u.compat.AlertmanagerConfig),
         err |-> NilErr]

\* (&c).UnmarshalJSON(data): the value of c afterwards and the error
ConfigUnmarshalJSON(c, r) ==
    LET u == jsonUnmarshalCompat(r)
    IN  IF u.err # NilErr THEN [c |-> c, err |-> u.err]
        ELSE [c |-> MakeConfig(u.compat.RuleFormatVersion, u.compat.RulesFiles,
                               u.compat.AlertmanagerConfig),
              err |-> NilErr]

\* type View struct { ID; Config; DeletedAt }
MakeView(id, c, deletedAt) == [ID |-> id, Config |-> c, DeletedAt |-> deletedAt]

ZeroView == MakeView(0, ZeroConfig, 0)

\* a *VersionedRulesConfig: nil, or a pointer to the struct
NilVersionedRulesConfig ==
    [isNil |-> TRUE, ID |-> 0, Config |-> ZeroRulesConfig, DeletedAt |-> 0]

\* a variant that tests the mapping for emptiness
GetVersionedRulesConfigLen(v) ==
    IF MapLen(v.Config.RulesConfig.Files) = 0 THEN NilVersionedRulesConfig
    ELSE [isNil |-> FALSE, ID |-> v.ID, Config |-> v.Config.RulesConfig,
          DeletedAt |-> v.DeletedAt]

GetVersionedRulesConfig(v) ==
    IF v.Config.RulesConfig.Files.isNil THEN NilVersionedRulesConfig
    ELSE [isNil |-> FALSE, ID |-> v.ID, Config |-> v.Config.RulesConfig,
          DeletedAt |-> v.DeletedAt]

\* the values the target of a decoding may hold beforehand
Targets == {ZeroConfig, MakeConfig(RuleFormatV2, MakeMap([c |-> "r = up"]), "old")}

\* the variables of the decoding before any call
IdleV ==
    /\ vPc = "idle"
    /\ rec = [rules_files |-> JAbsentFiles, rule_format_version |-> NoData,
              alertmanager_config |-> NoData]
    /\ cfg = ZeroConfig
    /\ cfgOld = ZeroConfig
    /\ cfgErr = NilErr
    /\ view = ZeroView
    /\ vrc = NilVersionedRulesConfig

InitV ==
    /\ vPc = "ready"
    /\ rec \in Records
    /\ cfg \in Targets
    /\ cfgOld = cfg
    /\ cfgErr = NilErr
    /\ view = ZeroView
    /\ vrc = NilVersionedRulesConfig

\* cfg.UnmarshalJSON(rec)
CallConfigUnmarshalJSON ==
    /\ vPc = "ready"
    /\ LET r == ConfigUnmarshalJSON(cfg, rec)
       IN  /\ cfg' = r.c
           /\ cfgErr' = r.err
    /\ cfgOld' = cfg
    /\ vPc' = "decoded"
    /\ UNCHANGED <<rec, view, vrc>>

\* the configs service returns the decoded configuration in a View
ReceiveView ==
    /\ vPc = "decoded"
    /\ cfgErr = NilErr
    /\ \E id \in 0..MaxID, t \in 0..MaxTime : view' = MakeView(id, cfg, t)
    /\ vPc' = "viewed"
    /\ UNCHANGED <<rec, cfg, cfgOld, cfgErr, vrc>>

\* view.GetVersionedRulesConfig()
CallGetVersionedRulesConfig ==
    /\ vPc = "viewed"
    /\ vrc' = GetVersionedRulesConfig(view)
    /\ vPc' = "projected"
    /\ UNCHANGED <<rec, cfg, cfgOld, cfgErr, view>>

----------------------------------------------------------------------------
(* Specifications *)

UnchangedE == UNCHANGED <<pVars, cVars, vVars>>
UnchangedP == UNCHANGED <<eVars, cVars, vVars>>
UnchangedC == UNCHANGED <<eVars, pVars, vVars>>
UnchangedV == UNCHANGED <<eVars, pVars, cVars>>

InitEqual == InitE /\ IdleP /\ IdleC /\ IdleV
NextEqual == CallEqual /\ UnchangedE
SpecEqual == InitEqual /\ [][NextEqual]_vars

InitParse == IdleE /\ InitP /\ IdleC /\ IdleV
NextParse ==
    \/ CallParse /\ UnchangedP
    \/ CallParseAgain /\ UnchangedP
SpecParse == InitParse /\ [][NextParse]_vars

InitCodec == IdleE /\ IdleP /\ InitC /\ IdleV
NextCodec ==
    \/ CallUnmarshalJSON /\ UnchangedC
    \/ CallMarshalJSON /\ UnchangedC
    \/ CallMarshalDecoded /\ UnchangedC
SpecCodec == InitCodec /\ [][NextCodec]_vars

InitView == IdleE /\ IdleP /\ IdleC /\ InitV
NextView ==
    \/ CallConfigUnmarshalJSON /\ UnchangedV
    \/ ReceiveView /\ UnchangedV
    \/ CallGetVersionedRulesConfig /\ UnchangedV
SpecView == InitView /\ [][NextView]_vars

----------------------------------------------------------------------------
(* Properties *)

Pairs(m) == {<<k, m.kv[k]>> : k \in DOMAIN m.kv}

\* C1: Equal returns true exactly when the format versions are equal and the
\* two file mappings hold the same (file name, content) pairs, whatever the
\* order of the iteration; on empty mappings and on differing key sets it
\* returns a boolean.
C1_EqualIffSamePairs ==
    ePc = "done" =>
        /\ eRet \in BOOLEAN
        /\ eRet = (/\ ec.FormatVersion = eo.FormatVersion
                   /\ Pairs(ec.Files) = Pairs(eo.Files))

C1_Witness ==
    /\ ePc = "done"
    /\ eRet
    /\ MapLen(ec.Files) = 2
    /\ eOrder = <<"d", "b;c">>

C1_WitnessKeySets ==
    /\ ePc = "done"
    /\ ~eRet
    /\ ec.FormatVersion = eo.FormatVersion
    /\ MapLen(ec.Files) = MapLen(eo.Files)
    /\ DOMAIN ec.Files.kv # DOMAIN eo.Files.kv

Parsed == pPc \in {"parsed", "parsed twice"}
Failed(o) == o.err # NilErr

\* whether a file fails to parse in the format v, read off the parsers
FileFails(v, content) ==
    IF v = RuleFormatV2
    THEN LET p == rulefmtParse(content)
         IN  \/ Len(p.errs) > 0
             \/ \E g \in Range(p.Groups) : \E rl \in Range(g.Rules) :
                    promqlParseExpr(rl.Expr).err # NilErr
    ELSE LET p == legacyParseStmts(content)
         IN  \/ p.err # ""
             \/ \E st \in Range(p.stmts) :
                    \/ st.kind \notin {"AlertStmt", "RecordStmt"}
                    \/ promqlParseExpr(legacyExprString(st.Expr)).err # NilErr

\* C2: Parse is all-or-nothing: when a file of the configuration fails to
\* parse, Parse returns an error and no mapping, wherever the file comes in
\* the iteration; an error never comes with a mapping; and when Parse returns
\* a mapping every file was visited and none fails.
C2_AllOrNothing ==
    Parsed =>
        /\ Failed(ret) => ret.rules = NilMap
        /\ (/\ IsValid(rc.FormatVersion)
            /\ \E fn \in DOMAIN rc.Files.kv : FileFails(rc.FormatVersion, rc.Files.kv[fn]))
           => (Failed(ret) /\ ret.rules = NilMap)
        /\ ~Failed(ret) =>
              /\ ~ret.rules.isNil
              /\ Range(ret.visited) = DOMAIN rc.Files.kv
              /\ \A fn \in DOMAIN rc.Files.kv : ~FileFails(rc.FormatVersion, rc.Files.kv[fn])

\* a malformed file visited after a well-formed one
C2_Witness ==
    /\ pPc = "parsed"
    /\ rc.FormatVersion = RuleFormatV2
    /\ Len(ret.visited) = 2
    /\ ~FileFails(RuleFormatV2, rc.Files.kv[ret.visited[1]])
    /\ Failed(ret)
    /\ ret.rules = NilMap

\* the (group name, file name) pairs of a configuration in the 2.x format
GroupsOf(c) ==
    UNION {{<<g.Name, fn>> : g \in Range(rulefmtParse(c.Files.kv[fn]).Groups)} :
           fn \in DOMAIN c.Files.kv}

\* C3: in a successful V2 parse no two distinct (group name, file name) pairs
\* have the same key, and the result has one entry per parsed group.
C3_NoKeyCollision ==
    (Parsed /\ rc.FormatVersion = RuleFormatV2 /\ ~Failed(ret)) =>
        /\ \A p, q \in GroupsOf(rc) :
              p # q => GroupKey(p[1], p[2]) # GroupKey(q[1], q[2])
        /\ DOMAIN ret.rules.kv = {GroupKey(p[1], p[2]) : p \in GroupsOf(rc)}
        /\ Cardinality(DOMAIN ret.rules.kv) = Cardinality(GroupsOf(rc))

\* C4: decoding "1" gives V1 and "2" gives V2, and encoding the decoded value
\* gives the token back; decoding any other string token fails and leaves the
\* target as it was; encoding a value other than V1 and V2 fails.
C4_Codec ==
    /\ cPc = "decoded" =>
          /\ data = JString("1") => (cErr = NilErr /\ fv = RuleFormatV1)
          /\ data = JString("2") => (cErr = NilErr /\ fv = RuleFormatV2)
          /\ (data.kind = "string" /\ data.val \notin {"1", "2"}) =>
                (cErr # NilErr /\ fv = fvOld)
    /\ cPc = "reencoded" => (cErr = NilErr /\ out = data /\ data.val \in {"1", "2"})
    /\ cPc = "encoded" =>
          (fv \notin {RuleFormatV1, RuleFormatV2} => (cErr # NilErr /\ out = NoData))

C4_Witness ==
    /\ cPc = "reencoded"
    /\ data = JString("2")
    /\ fvOld = RuleFormatV1
    /\ out = JString("2")

C4_WitnessRejected ==
    /\ cPc = "decoded"
    /\ data = JString("01")
    /\ fvOld = RuleFormatV2
    /\ cErr # NilErr

\* C5: Parse of a configuration whose version is not valid fails with an error
\* carrying the value, returns no mapping and parses no file; V1 goes to the
\* V1 adapter and V2 to the V2 adapter; an adapter runs exactly when IsValid.
C5_Dispatch ==
    Parsed =>
        /\ (ret.adapter # "none") = IsValid(rc.FormatVersion)
        /\ rc.FormatVersion = RuleFormatV1 => ret.adapter = "parseV1"
        /\ rc.FormatVersion = RuleFormatV2 => ret.adapter = "parseV2"
        /\ ~IsValid(rc.FormatVersion) =>
              /\ ret.err = Errorf("unknown rule format version %v",
                                  <<ToString(rc.FormatVersion)>>)
              /\ ret.rules = NilMap
              /\ ret.visited = <<>>

C5_Witness ==
    /\ pPc = "parsed"
    /\ rc.FormatVersion = 2
    /\ MapLen(rc.Files) = 2
    /\ Failed(ret)
    /\ ret.adapter = "none"

\* C6: GetVersionedRulesConfig returns nil exactly when the file mapping of the
\* view is unset; otherwise, an empty mapping included, the result carries the
\* ID, the rules configuration and the deletion time of the view; the view
\* still holds the configuration it was made of.
C6_Projection ==
    vPc = "projected" =>
        /\ vrc.isNil = view.Config.RulesConfig.Files.isNil
        /\ ~vrc.isNil =>
              /\ vrc.ID = view.ID
              /\ vrc.Config = view.Config.RulesConfig
              /\ vrc.DeletedAt = view.DeletedAt
        /\ view.Config = cfg

C6_Witness ==
    /\ vPc = "projected"
    /\ view.Config.RulesConfig.Files = MakeMap(<<>>)
    /\ ~vrc.isNil
    /\ vrc.ID = 1

C6_WitnessNil ==
    /\ vPc = "projected"
    /\ view.Config.RulesConfig.Files.isNil
    /\ vrc.isNil

\* C7: a record without rule_format_version decodes to a configuration of
\* format version V1 whose files and alert-routing text are those of the
\* record; a record with a string token other than "1" and "2" is rejected
\* and the target is left as it was.
C7_LegacyRecord ==
    vPc = "decoded" =>
        /\ rec.rule_format_version = NoData =>
              /\ cfgErr = NilErr
              /\ cfg.RulesConfig.FormatVersion = RuleFormatV1
              /\ cfg.RulesConfig.Files =
                    (IF rec.rules_files.kind = "object"
                     THEN MakeMap(rec.rules_files.obj) ELSE NilMap)
              /\ cfg.AlertmanagerConfig =
                    (IF rec.alertmanager_config = NoData THEN ""
                     ELSE rec.alertmanager_config.val)
        /\ (/\ rec.rule_format_version.kind = "string"
            /\ rec.rule_format_version.val \notin {"1", "2"}) =>
              (cfgErr # NilErr /\ cfg = cfgOld)

C7_Witness ==
    /\ vPc = "decoded"
    /\ rec.rule_format_version = NoData
    /\ rec.rules_files.kind = "object"
    /\ Cardinality(DOMAIN rec.rules_files.obj) = 2
    /\ cfgOld.RulesConfig.FormatVersion = RuleFormatV2
    /\ cfg.RulesConfig.FormatVersion = RuleFormatV1

C7_WitnessRejected ==
    /\ vPc = "decoded"
    /\ rec.rule_format_version = JString("3")
    /\ cfgOld.RulesConfig.FormatVersion = RuleFormatV2
    /\ cfgErr # NilErr

\* the rule is the one the V2 adapter builds from the rule statement rl
BuiltFromV2(rule, rl) ==
    /\ rule.rule = (IF rl.Alert # "" THEN "AlertingRule" ELSE "RecordingRule")
    /\ rule.name = (IF rl.Alert # "" THEN rl.Alert ELSE rl.Record)
    /\ rule.vector = promqlParseExpr(rl.Expr).expr

\* the rule is the one the V1 adapter builds from the statement st
BuiltFromV1(rule, st) ==
    /\ rule.rule = (IF st.kind = "AlertStmt" THEN "AlertingRule" ELSE "RecordingRule")
    /\ rule.name = st.Name
    /\ rule.vector = promqlParseExpr(legacyExprString(st.Expr)).expr

InOrderV2(c, o) ==
    \A fn \in DOMAIN c.Files.kv :
        \A g \in Range(rulefmtParse(c.Files.kv[fn]).Groups) :
            LET key == GroupKey(g.Name, fn)
            IN  /\ key \in DOMAIN o.rules.kv
                /\ Len(o.rules.kv[key]) = Len(g.Rules)
                /\ \A i \in DOMAIN g.Rules :
                      i \in DOMAIN o.rules.kv[key] => BuiltFromV2(o.rules.kv[key][i], g.Rules[i])

InOrderV1(c, o) ==
    \A fn \in DOMAIN c.Files.kv :
        LET stmts == legacyParseStmts(c.Files.kv[fn]).stmts
        IN  /\ fn \in DOMAIN o.rules.kv
            /\ Len(o.rules.kv[fn]) = Len(stmts)
            /\ \A i \in DOMAIN stmts : BuiltFromV1(o.rules.kv[fn][i], stmts[i])

\* C8: in a successful parse the sequence under each key has one rule per
\* source statement, in source order: for V2 the i-th rule under
\* <group name>;<file name> is built from the i-th rule statement of that
\* group, for V1 the i-th rule under <file name> from the i-th statement of
\* the file.
C8_SourceOrder ==
    (Parsed /\ ~Failed(ret)) =>
        /\ rc.FormatVersion = RuleFormatV2 => InOrderV2(rc, ret)
        /\ rc.FormatVersion = RuleFormatV1 => InOrderV1(rc, ret)

\* C9: two runs of Parse on the same configuration return the same mapping
\* and the same error, whatever the orders in which the files are visited.
C9_SameOutcome ==
    pPc = "parsed twice" => (ret.rules = ret1.rules /\ ret.err = ret1.err)

\* the file at which a failed parse stopped
FailedFile(o) == o.visited[Len(o.visited)]
HasFileName(o) == FailedFile(o) \in Range(o.err.args)
FileLevelV2(c, o) == Len(rulefmtParse(c.Files.kv[FailedFile(o)]).errs) > 0
FileLevelV1(c, o) == legacyParseStmts(c.Files.kv[FailedFile(o)]).err # ""

ErrorContextV2 ==
    (Parsed /\ Failed(ret) /\ rc.FormatVersion = RuleFormatV2) =>
        (HasFileName(ret) = FileLevelV2(rc, ret))

\* C10 as stated: the V2 adapter names the file in file-level errors and not
\* in expression errors; the V1 adapter names the file in statement-parse
\* errors and in expression re-parse errors.
C10_ErrorContextStated ==
    /\ ErrorContextV2
    /\ (Parsed /\ Failed(ret) /\ rc.FormatVersion = RuleFormatV1) => HasFileName(ret)

\* C10 amended: the V2 adapter names the file in file-level errors and not in
\* expression errors; the V1 adapter names the file in statement-parse errors
\* and, like the V2 adapter, not in expression re-parse errors.
C10_ErrorContext ==
    /\ ErrorContextV2
    /\ (Parsed /\ Failed(ret) /\ rc.FormatVersion = RuleFormatV1) =>
          (HasFileName(ret) = FileLevelV1(rc, ret))

\* a V1 expression re-parse error
C10_Witness ==
    /\ pPc = "parsed"
    /\ rc.FormatVersion = RuleFormatV1
    /\ Failed(ret)
    /\ ~FileLevelV1(rc, ret)
    /\ ~HasFileName(ret)
    /\ Len(ret.visited) = 2

====
